---- MODULE Spec2Model ----
(***************************************************************************)
(* Red-black tree with an in-order doubly linked list (rbtree.go).         *)
(*                                                                         *)
(* The heap is a function from the objects the container can reach (its    *)
(* sentinel and the stored nodes, plus a node under construction) to       *)
(* Rbnode records.  Pointers are small integers, nil is a value outside    *)
(* the heap, so following a nil or a discarded pointer is an evaluation    *)
(* error and not a silent read.  Every public method is one action that runs  *)
(* the whole method; loops are RECURSIVE operators over the heap.          *)
(***************************************************************************)
EXTENDS Integers, Sequences, FiniteSets

\* Keys are 1 .. MaxItem.
MaxItem == 7

\* Keys are 1 .. MaxGrow in the behaviors that insert in ascending order only.
MaxGrow == 10

\* the nil pointer / nil interface value
nil == 0 - 1

\* the address of the sentinel allocated by NewRbtree
nillNode == 0

RED == FALSE
BLACK == TRUE

\* An Item "contains key and value" and is ordered by its key.  Item i of
\* 1 .. MaxItem has key i; Twin is one more item, with the key of another
\* item and a different value, so that two distinct items can be equal under
\* Less.
Twin == MaxGrow + 1
Items == (1 .. MaxItem) \cup {Twin}
GrowItems == 1 .. MaxGrow

\* Two items that the operations of a behavior never use, one greater and one
\* less than every item of Items: the item of one more Insert or Get on a
\* container that may already hold every key.
Over == Twin + 1
Under == Twin + 2
Key(item) ==
    IF item = Twin THEN MaxItem \div 2
    ELSE IF item = Over THEN MaxGrow + 1
    ELSE IF item = Under THEN 0
    ELSE item

\* One cell per item and a spare one for a temporary node.
SpareCell == Under + 1

VARIABLES nill, root, count, first, last, heap, hasInsert

vars == <<nill, root, count, first, last, heap, hasInsert>>

\* Item.Less
Less(a, b) == Key(a) < Key(b)

\* The Rbtree struct together with the objects it reaches.
T == [nill |-> nill, root |-> root, count |-> count, first |-> first,
      last |-> last, nd |-> heap]

\* &Rbnode{left, right, parent, prev, next, item, color}
Rbnode(l, r, p, pv, nx, item, c) ==
    [left |-> l, right |-> r, parent |-> p, prev |-> pv, next |-> nx,
     Item |-> item, color |-> c]

\* n.f = v
set(t, n, f, v) == [t EXCEPT !.nd[n][f] = v]

\* The allocator returns a cell that is not in use.  The code compares
\* pointers for equality only, so which free cell it returns is immaterial;
\* here a node that is to hold item v gets cell v when that is free (it is
\* free exactly when no stored node was allocated for v) and the spare cell
\* otherwise.
alloc(t, item) == IF item \notin DOMAIN t.nd THEN item ELSE SpareCell

\* a new object at address p
new(t, p, rec) == [t EXCEPT !.nd = [q \in (DOMAIN t.nd) \cup {p} |-> IF q = p THEN rec ELSE t.nd[q]]]

\* an object the container no longer reaches
drop(t, p) == [t EXCEPT !.nd = [q \in (DOMAIN t.nd) \ {p} |-> t.nd[q]]]

\* NewRbtree that leaves first and last nil
emptyTree_noList ==
    [nill |-> nillNode, root |-> nillNode, count |-> 0, first |-> nil,
     last |-> nil,
     nd |-> [q \in {nillNode} |-> Rbnode(nil, nil, nil, nil, nil, nil, BLACK)]]

emptyTree ==
    [nill |-> nillNode, root |-> nillNode, count |-> 0, first |-> nillNode,
     last |-> nillNode,
     nd |-> [q \in {nillNode} |-> Rbnode(nil, nil, nil, nil, nil, nil, BLACK)]]

\* Each method below is its statements in order: a local operator per
\* statement, taking the state the statement runs in, applied one after the
\* other.

\* leftRotate that leaves the parent link of y's left subtree on y
leftRotate_parentKept(t, x) ==
    IF t.nd[x].right = t.nill THEN t
    ELSE
    LET y == t.nd[x].right
        s1(a) == set(a, x, "right", a.nd[y].left)
        s3(a) == set(a, y, "parent", a.nd[x].parent)
        s4(a) == IF a.nd[x].parent = a.nill THEN [a EXCEPT !.root = y]
                 ELSE IF x = a.nd[a.nd[x].parent].left
                 THEN set(a, a.nd[x].parent, "left", y)
                 ELSE set(a, a.nd[x].parent, "right", y)
        s5(a) == set(a, y, "left", x)
        s6(a) == set(a, x, "parent", y)
    IN  s6(s5(s4(s3(s1(t)))))

leftRotate(t, x) ==
    IF t.nd[x].right = t.nill THEN t
    ELSE
    LET y == t.nd[x].right
        s1(a) == set(a, x, "right", a.nd[y].left)
        s2(a) == IF a.nd[y].left # a.nill
                 THEN set(a, a.nd[y].left, "parent", x) ELSE a
        s3(a) == set(a, y, "parent", a.nd[x].parent)
        s4(a) == IF a.nd[x].parent = a.nill THEN [a EXCEPT !.root = y]
                 ELSE IF x = a.nd[a.nd[x].parent].left
                 THEN set(a, a.nd[x].parent, "left", y)
                 ELSE set(a, a.nd[x].parent, "right", y)
        s5(a) == set(a, y, "left", x)
        s6(a) == set(a, x, "parent", y)
    IN  s6(s5(s4(s3(s2(s1(t))))))

rightRotate(t, x) ==
    IF t.nd[x].left = t.nill THEN t
    ELSE
    LET y == t.nd[x].left
        s1(a) == set(a, x, "left", a.nd[y].right)
        s2(a) == IF a.nd[y].right # a.nill
                 THEN set(a, a.nd[y].right, "parent", x) ELSE a
        s3(a) == set(a, y, "parent", a.nd[x].parent)
        s4(a) == IF a.nd[x].parent = a.nill THEN [a EXCEPT !.root = y]
                 ELSE IF x = a.nd[a.nd[x].parent].left
                 THEN set(a, a.nd[x].parent, "left", y)
                 ELSE set(a, a.nd[x].parent, "right", y)
        s5(a) == set(a, y, "right", x)
        s6(a) == set(a, x, "parent", y)
    IN  s6(s5(s4(s3(s2(s1(t))))))

RECURSIVE min(_, _)
min(t, x) ==
    IF x = t.nill THEN t.nill
    ELSE IF t.nd[x].left # t.nill THEN min(t, t.nd[x].left)
    ELSE x

RECURSIVE max(_, _)
max(t, x) ==
    IF x = t.nill THEN t.nill
    ELSE IF t.nd[x].right # t.nill THEN max(t, t.nd[x].right)
    ELSE x

\* searchFrom with the two directions exchanged
RECURSIVE searchFrom_swapped(_, _, _)
searchFrom_swapped(t, x, p) ==
    IF p = t.nill THEN p
    ELSE IF Less(t.nd[p].Item, t.nd[x].Item) THEN searchFrom_swapped(t, x, t.nd[p].left)
    ELSE IF Less(t.nd[x].Item, t.nd[p].Item) THEN searchFrom_swapped(t, x, t.nd[p].right)
    ELSE p

\* the loop of search: p walks down from the root
RECURSIVE searchFrom(_, _, _)
searchFrom(t, x, p) ==
    IF p = t.nill THEN p
    ELSE IF Less(t.nd[p].Item, t.nd[x].Item) THEN searchFrom(t, x, t.nd[p].right)
    ELSE IF Less(t.nd[x].Item, t.nd[p].Item) THEN searchFrom(t, x, t.nd[p].left)
    ELSE p

search(t, x) == searchFrom(t, x, t.root)

\* the loop of successor: climb while x is a right child
RECURSIVE successorUp(_, _, _)
successorUp(t, x, y) ==
    IF y # t.nill /\ x = t.nd[y].right THEN successorUp(t, y, t.nd[y].parent)
    ELSE y

successor(t, x) ==
    IF x = t.nill THEN t.nill
    ELSE IF t.nd[x].right # t.nill THEN min(t, t.nd[x].right)
    ELSE successorUp(t, x, t.nd[x].parent)

transplant(t, u, v) ==
    LET s1(a) == IF a.nd[u].parent = a.nill THEN [a EXCEPT !.root = v]
                 ELSE IF u = a.nd[a.nd[u].parent].left
                 THEN set(a, a.nd[u].parent, "left", v)
                 ELSE set(a, a.nd[u].parent, "right", v)
        s2(a) == set(a, v, "parent", a.nd[u].parent)
    IN  s2(s1(t))

\* insertFixupRecolor that leaves z where it is and its parent RED
insertFixupRecolor_parentKept(t, z, y) ==
    LET s2(a) == set(a, y, "color", BLACK)
        s3(a) == set(a, a.nd[a.nd[z].parent].parent, "color", RED)
        s4(a) == [t |-> a, z |-> z]
    IN  s4(s3(s2(t)))

\* insertFixupRecolor that leaves z where it is
insertFixupRecolor_zKept(t, z, y) ==
    LET s1(a) == set(a, a.nd[z].parent, "color", BLACK)
        s2(a) == set(a, y, "color", BLACK)
        s3(a) == set(a, a.nd[a.nd[z].parent].parent, "color", RED)
        s4(a) == [t |-> a, z |-> z]
    IN  s4(s3(s2(s1(t))))

\* Case 1 of insertFixup (either side): the uncle y is RED
insertFixupRecolor(t, z, y) ==
    LET s1(a) == set(a, a.nd[z].parent, "color", BLACK)
        s2(a) == set(a, y, "color", BLACK)
        s3(a) == set(a, a.nd[a.nd[z].parent].parent, "color", RED)
        s4(a) == [t |-> a, z |-> a.nd[a.nd[z].parent].parent]
    IN  s4(s3(s2(s1(t))))

\* Cases 2 and 3 of insertFixup when z.parent is a left child
insertFixupLeft(t, z) ==
    LET s1(s) == IF s.z = s.t.nd[s.t.nd[s.z].parent].right
                 THEN [t |-> leftRotate(s.t, s.t.nd[s.z].parent),
                       z |-> s.t.nd[s.z].parent]
                 ELSE s
        s2(s) == [s EXCEPT !.t = set(s.t, s.t.nd[s.z].parent, "color", BLACK)]
        s3(s) == [s EXCEPT !.t = set(s.t, s.t.nd[s.t.nd[s.z].parent].parent, "color", RED)]
        s4(s) == [s EXCEPT !.t = rightRotate(s.t, s.t.nd[s.t.nd[s.z].parent].parent)]
    IN  s4(s3(s2(s1([t |-> t, z |-> z]))))

\* Cases 2 and 3 of insertFixup when z.parent is a right child
insertFixupRight(t, z) ==
    LET s1(s) == IF s.z = s.t.nd[s.t.nd[s.z].parent].left
                 THEN [t |-> rightRotate(s.t, s.t.nd[s.z].parent),
                       z |-> s.t.nd[s.z].parent]
                 ELSE s
        s2(s) == [s EXCEPT !.t = set(s.t, s.t.nd[s.z].parent, "color", BLACK)]
        s3(s) == [s EXCEPT !.t = set(s.t, s.t.nd[s.t.nd[s.z].parent].parent, "color", RED)]
        s4(s) == [s EXCEPT !.t = leftRotate(s.t, s.t.nd[s.t.nd[s.z].parent].parent)]
    IN  s4(s3(s2(s1([t |-> t, z |-> z]))))

\* one iteration of the loop of insertFixup, entered with z.parent RED
insertFixupBody(t, z) ==
    IF t.nd[z].parent = t.nd[t.nd[t.nd[z].parent].parent].left
    THEN IF t.nd[t.nd[t.nd[t.nd[z].parent].parent].right].color = RED
         THEN insertFixupRecolor(t, z, t.nd[t.nd[t.nd[z].parent].parent].right)
         ELSE insertFixupLeft(t, z)
    ELSE IF t.nd[t.nd[t.nd[t.nd[z].parent].parent].left].color = RED
         THEN insertFixupRecolor(t, z, t.nd[t.nd[t.nd[z].parent].parent].left)
         ELSE insertFixupRight(t, z)

\* insertFixup without the final root.color = BLACK
RECURSIVE insertFixup_rootKept(_, _)
insertFixup_rootKept(t, z) ==
    IF t.nd[t.nd[z].parent].color = RED
    THEN LET again(s) == insertFixup_rootKept(s.t, s.z) IN again(insertFixupBody(t, z))
    ELSE t

RECURSIVE insertFixup(_, _)
insertFixup(t, z) ==
    IF t.nd[t.nd[z].parent].color = RED
    THEN LET again(s) == insertFixup(s.t, s.z) IN again(insertFixupBody(t, z))
    ELSE set(t, t.root, "color", BLACK)

\* the descent of insert: x walks down from the root, y trails it
RECURSIVE insertDescend(_, _, _, _)
insertDescend(t, z, x, y) ==
    IF x = t.nill THEN [x |-> x, y |-> y, dup |-> FALSE]
    ELSE IF Less(t.nd[z].Item, t.nd[x].Item) THEN insertDescend(t, z, t.nd[x].left, x)
    ELSE IF Less(t.nd[x].Item, t.nd[z].Item) THEN insertDescend(t, z, t.nd[x].right, x)
    ELSE [x |-> x, y |-> x, dup |-> TRUE]

\* insertSplice that takes the prev of a new last node from its grandparent
insertSplice_grandparent(t, z) ==
    LET s1(a) == set(a, z, "next", successor(a, z))
        s2(a) == set(a, z, "prev", a.nd[a.nd[z].next].prev)
        s3(a) == set(a, a.nd[z].next, "prev", z)
        s4(a) == set(a, z, "prev", a.nd[a.nd[z].parent].parent)
        s5(a) == [a EXCEPT !.last = z]
        s6(a) == IF a.nd[z].next # a.nill THEN s3(s2(a)) ELSE s5(s4(a))
        s7(a) == IF a.nd[z].prev # a.nill THEN set(a, a.nd[z].prev, "next", z)
                 ELSE [a EXCEPT !.first = z]
    IN  s7(s6(s1(t)))

\* insertSplice that never updates first
insertSplice_firstKept(t, z) ==
    LET s1(a) == set(a, z, "next", successor(a, z))
        s2(a) == set(a, z, "prev", a.nd[a.nd[z].next].prev)
        s3(a) == set(a, a.nd[z].next, "prev", z)
        s4(a) == set(a, z, "prev", a.nd[z].parent)
        s5(a) == [a EXCEPT !.last = z]
        s6(a) == IF a.nd[z].next # a.nill THEN s3(s2(a)) ELSE s5(s4(a))
        s7(a) == IF a.nd[z].prev # a.nill THEN set(a, a.nd[z].prev, "next", z)
                 ELSE a
    IN  s7(s6(s1(t)))

\* the list splice at the end of insert
insertSplice(t, z) ==
    LET s1(a) == set(a, z, "next", successor(a, z))
        s2(a) == set(a, z, "prev", a.nd[a.nd[z].next].prev)
        s3(a) == set(a, a.nd[z].next, "prev", z)
        s4(a) == set(a, z, "prev", a.nd[z].parent)
        s5(a) == [a EXCEPT !.last = z]
        s6(a) == IF a.nd[z].next # a.nill THEN s3(s2(a)) ELSE s5(s4(a))
        s7(a) == IF a.nd[z].prev # a.nill THEN set(a, a.nd[z].prev, "next", z)
                 ELSE [a EXCEPT !.first = z]
    IN  s7(s6(s1(t)))

\* insertLink with the two sides exchanged
insertLink_swapped(t, z, y) ==
    LET s1(a) == set(a, z, "parent", y)
        s2(a) == IF y = a.nill THEN [a EXCEPT !.root = z]
                 ELSE IF Less(a.nd[z].Item, a.nd[y].Item) THEN set(a, y, "right", z)
                 ELSE set(a, y, "left", z)
        s3(a) == [a EXCEPT !.count = @ + 1]
    IN  s3(s2(s1(t)))

\* the attachment of z below y in insert, with the count
insertLink(t, z, y) ==
    LET s1(a) == set(a, z, "parent", y)
        s2(a) == IF y = a.nill THEN [a EXCEPT !.root = z]
                 ELSE IF Less(a.nd[z].Item, a.nd[y].Item) THEN set(a, y, "left", z)
                 ELSE set(a, y, "right", z)
        s3(a) == [a EXCEPT !.count = @ + 1]
    IN  s3(s2(s1(t)))

\* insert that stores the new item in the equal node it finds
insert_replacing(t, z) ==
    LET found(d) ==
            IF d.dup
            THEN [t |-> set(t, d.x, "Item", t.nd[z].Item), node |-> d.x, ok |-> FALSE]
            ELSE [t |-> insertSplice(insertFixup(insertLink(t, z, d.y), z), z),
                  node |-> z, ok |-> TRUE]
    IN  found(insertDescend(t, z, t.root, t.nill))

insert(t, z) ==
    LET found(d) ==
            IF d.dup THEN [t |-> t, node |-> d.x, ok |-> FALSE]
            ELSE [t |-> insertSplice(insertFixup(insertLink(t, z, d.y), z), z),
                  node |-> z, ok |-> TRUE]
    IN  found(insertDescend(t, z, t.root, t.nill))

\* the loop body of deleteFixup when x is a left child; w is the sibling
deleteFixupLeft(t, x) ==
    LET a1(a) == set(a, a.nd[a.nd[x].parent].right, "color", BLACK)
        a2(a) == set(a, a.nd[x].parent, "color", RED)
        a3(a) == leftRotate(a, a.nd[x].parent)
        a4(a) == [t |-> a, w |-> a.nd[a.nd[x].parent].right]
        b1(s) == [s EXCEPT !.t = set(s.t, s.t.nd[s.w].left, "color", BLACK)]
        b2(s) == [s EXCEPT !.t = set(s.t, s.w, "color", RED)]
        b3(s) == [s EXCEPT !.t = rightRotate(s.t, s.w)]
        b4(s) == [s EXCEPT !.w = s.t.nd[s.t.nd[x].parent].right]
        b(s)  == IF s.t.nd[s.t.nd[s.w].right].color = BLACK THEN b4(b3(b2(b1(s)))) ELSE s
        c1(s) == [s EXCEPT !.t = set(s.t, s.w, "color", s.t.nd[s.t.nd[x].parent].color)]
        c2(s) == [s EXCEPT !.t = set(s.t, s.t.nd[x].parent, "color", BLACK)]
        c3(s) == [s EXCEPT !.t = set(s.t, s.t.nd[s.w].right, "color", BLACK)]
        c4(s) == [s EXCEPT !.t = leftRotate(s.t, s.t.nd[x].parent)]
        c5(s) == [t |-> s.t, x |-> s.t.root]
        rest(s) == IF /\ s.t.nd[s.t.nd[s.w].left].color = BLACK
                      /\ s.t.nd[s.t.nd[s.w].right].color = BLACK
                   THEN [t |-> set(s.t, s.w, "color", RED), x |-> s.t.nd[x].parent]
                   ELSE c5(c4(c3(c2(c1(b(s))))))
    IN  rest(IF t.nd[t.nd[t.nd[x].parent].right].color = RED
             THEN a4(a3(a2(a1(t))))
             ELSE [t |-> t, w |-> t.nd[t.nd[x].parent].right])

\* the loop body of deleteFixup when x is a right child
deleteFixupRight(t, x) ==
    LET a1(a) == set(a, a.nd[a.nd[x].parent].left, "color", BLACK)
        a2(a) == set(a, a.nd[x].parent, "color", RED)
        a3(a) == rightRotate(a, a.nd[x].parent)
        a4(a) == [t |-> a, w |-> a.nd[a.nd[x].parent].left]
        b1(s) == [s EXCEPT !.t = set(s.t, s.t.nd[s.w].right, "color", BLACK)]
        b2(s) == [s EXCEPT !.t = set(s.t, s.w, "color", RED)]
        b3(s) == [s EXCEPT !.t = leftRotate(s.t, s.w)]
        b4(s) == [s EXCEPT !.w = s.t.nd[s.t.nd[x].parent].left]
        b(s)  == IF s.t.nd[s.t.nd[s.w].left].color = BLACK THEN b4(b3(b2(b1(s)))) ELSE s
        c1(s) == [s EXCEPT !.t = set(s.t, s.w, "color", s.t.nd[s.t.nd[x].parent].color)]
        c2(s) == [s EXCEPT !.t = set(s.t, s.t.nd[x].parent, "color", BLACK)]
        c3(s) == [s EXCEPT !.t = set(s.t, s.t.nd[s.w].left, "color", BLACK)]
        c4(s) == [s EXCEPT !.t = rightRotate(s.t, s.t.nd[x].parent)]
        c5(s) == [t |-> s.t, x |-> s.t.root]
        rest(s) == IF /\ s.t.nd[s.t.nd[s.w].left].color = BLACK
                      /\ s.t.nd[s.t.nd[s.w].right].color = BLACK
                   THEN [t |-> set(s.t, s.w, "color", RED), x |-> s.t.nd[x].parent]
                   ELSE c5(c4(c3(c2(c1(b(s))))))
    IN  rest(IF t.nd[t.nd[t.nd[x].parent].left].color = RED
             THEN a4(a3(a2(a1(t))))
             ELSE [t |-> t, w |-> t.nd[t.nd[x].parent].left])

\* one iteration of the loop of deleteFixup, entered with x # root and x BLACK
deleteFixupBody(t, x) ==
    IF x = t.nd[t.nd[x].parent].left
    THEN deleteFixupLeft(t, x)
    ELSE deleteFixupRight(t, x)

\* deleteFixup without its loop
deleteFixup_noLoop(t, x) == set(t, x, "color", BLACK)

RECURSIVE deleteFixup(_, _)
deleteFixup(t, x) ==
    IF x # t.root /\ t.nd[x].color = BLACK
    THEN LET again(s) == deleteFixup(s.t, s.x) IN again(deleteFixupBody(t, x))
    ELSE set(t, x, "color", BLACK)

\* the loop of remove_raw's two-children case: y walks left from z.right
RECURSIVE leftmost(_, _)
leftmost(t, y) ==
    IF t.nd[y].left # t.nill THEN leftmost(t, t.nd[y].left) ELSE y

\* removeTwoChildren that leaves x.parent as it was when y is the right child
\* of z
removeTwoChildren_xParentKept(t, z, y) ==
    LET s2(a) == transplant(a, y, a.nd[y].right)
        s3(a) == set(a, y, "right", a.nd[z].right)
        s4(a) == set(a, a.nd[y].right, "parent", y)
        s5(a) == IF a.nd[y].parent = z THEN a ELSE s4(s3(s2(a)))
        s6(a) == transplant(a, z, y)
        s7(a) == set(a, y, "left", a.nd[z].left)
        s8(a) == set(a, a.nd[y].left, "parent", y)
        s9(a) == set(a, y, "color", a.nd[z].color)
    IN  [t |-> s9(s8(s7(s6(s5(t))))), x |-> t.nd[y].right,
         yOriginalColor |-> t.nd[y].color]

\* removeTwoChildren that does not hand z.left over to y
removeTwoChildren_leftLost(t, z, y) ==
    LET s1(a) == set(a, a.nd[y].right, "parent", y)
        s2(a) == transplant(a, y, a.nd[y].right)
        s3(a) == set(a, y, "right", a.nd[z].right)
        s4(a) == set(a, a.nd[y].right, "parent", y)
        s5(a) == IF a.nd[y].parent = z THEN s1(a) ELSE s4(s3(s2(a)))
        s6(a) == transplant(a, z, y)
        s9(a) == set(a, y, "color", a.nd[z].color)
    IN  [t |-> s9(s6(s5(t))), x |-> t.nd[y].right, yOriginalColor |-> t.nd[y].color]

\* removeTwoChildren that reports the color of z as the color taken out
removeTwoChildren_zColor(t, z, y) ==
    LET s1(a) == set(a, a.nd[y].right, "parent", y)
        s2(a) == transplant(a, y, a.nd[y].right)
        s3(a) == set(a, y, "right", a.nd[z].right)
        s4(a) == set(a, a.nd[y].right, "parent", y)
        s5(a) == IF a.nd[y].parent = z THEN s1(a) ELSE s4(s3(s2(a)))
        s6(a) == transplant(a, z, y)
        s7(a) == set(a, y, "left", a.nd[z].left)
        s8(a) == set(a, a.nd[y].left, "parent", y)
        s9(a) == set(a, y, "color", a.nd[z].color)
    IN  [t |-> s9(s8(s7(s6(s5(t))))), x |-> t.nd[y].right,
         yOriginalColor |-> t.nd[z].color]

\* removeTwoChildren that hands z's item over to y along with z's color
removeTwoChildren_itemCopied(t, z, y) ==
    LET s1(a) == set(a, a.nd[y].right, "parent", y)
        s2(a) == transplant(a, y, a.nd[y].right)
        s3(a) == set(a, y, "right", a.nd[z].right)
        s4(a) == set(a, a.nd[y].right, "parent", y)
        s5(a) == IF a.nd[y].parent = z THEN s1(a) ELSE s4(s3(s2(a)))
        s6(a) == transplant(a, z, y)
        s7(a) == set(a, y, "left", a.nd[z].left)
        s8(a) == set(a, a.nd[y].left, "parent", y)
        s9(a) == set(set(a, y, "color", a.nd[z].color), y, "Item", a.nd[z].Item)
    IN  [t |-> s9(s8(s7(s6(s5(t))))), x |-> t.nd[y].right,
         yOriginalColor |-> t.nd[y].color]

\* the two-children case of remove_raw; y is the successor of z, the node
\* that takes the place of z
removeTwoChildren(t, z, y) ==
    LET s1(a) == set(a, a.nd[y].right, "parent", y)
        s2(a) == transplant(a, y, a.nd[y].right)
        s3(a) == set(a, y, "right", a.nd[z].right)
        s4(a) == set(a, a.nd[y].right, "parent", y)
        s5(a) == IF a.nd[y].parent = z THEN s1(a) ELSE s4(s3(s2(a)))
        s6(a) == transplant(a, z, y)
        s7(a) == set(a, y, "left", a.nd[z].left)
        s8(a) == set(a, a.nd[y].left, "parent", y)
        s9(a) == set(a, y, "color", a.nd[z].color)
    IN  [t |-> s9(s8(s7(s6(s5(t))))), x |-> t.nd[y].right,
         yOriginalColor |-> t.nd[y].color]

\* the structural part of remove_raw: unlink z from the tree; x is the node
\* that takes the vacated place, yOriginalColor the color taken out
removeUnlink(t, z) ==
    IF t.nd[z].left = t.nill
    THEN [t |-> transplant(t, z, t.nd[z].right), x |-> t.nd[z].right,
          yOriginalColor |-> t.nd[z].color]
    ELSE IF t.nd[z].right = t.nill
    THEN [t |-> transplant(t, z, t.nd[z].left), x |-> t.nd[z].left,
          yOriginalColor |-> t.nd[z].color]
    ELSE removeTwoChildren(t, z, leftmost(t, t.nd[z].right))

\* removeSplice that never updates first
removeSplice_firstKept(t, z) ==
    LET s1(a) == IF a.nd[z].next # a.nill
                 THEN set(a, a.nd[z].next, "prev", a.nd[z].prev)
                 ELSE [a EXCEPT !.last = a.nd[z].prev]
        s2(a) == IF a.nd[z].prev # a.nill
                 THEN set(a, a.nd[z].prev, "next", a.nd[z].next)
                 ELSE a
    IN  s2(s1(t))

\* the list splice-out at the end of remove_raw
removeSplice(t, z) ==
    LET s1(a) == IF a.nd[z].next # a.nill
                 THEN set(a, a.nd[z].next, "prev", a.nd[z].prev)
                 ELSE [a EXCEPT !.last = a.nd[z].prev]
        s2(a) == IF a.nd[z].prev # a.nill
                 THEN set(a, a.nd[z].prev, "next", a.nd[z].next)
                 ELSE [a EXCEPT !.first = a.nd[z].next]
    IN  s2(s1(t))

\* remove_raw without count--
remove_raw_countKept(t, z) ==
    LET s1(u) == IF u.yOriginalColor = BLACK THEN deleteFixup(u.t, u.x) ELSE u.t
    IN  [t |-> removeSplice(s1(removeUnlink(t, z)), z), node |-> z, ok |-> TRUE]

remove_raw(t, z) ==
    LET s1(u) == IF u.yOriginalColor = BLACK THEN deleteFixup(u.t, u.x) ELSE u.t
        s2(a) == [a EXCEPT !.count = @ - 1]
    IN  [t |-> removeSplice(s2(s1(removeUnlink(t, z))), z), node |-> z, ok |-> TRUE]

\* remove that counts down before it knows whether the key was found
remove_countFirst(t, key) ==
    LET found(z) ==
            IF z = t.nill
            THEN [t |-> [t EXCEPT !.count = @ - 1], node |-> nil, ok |-> FALSE]
            ELSE remove_raw(t, z)
    IN  found(search(t, key))

remove(t, key) ==
    LET found(z) ==
            IF z = t.nill THEN [t |-> t, node |-> nil, ok |-> FALSE]
            ELSE remove_raw(t, z)
    IN  found(search(t, key))

\* ------------------------------------------------------------ public API

\* Rbtree.Insert: the node is allocated before the descent and is garbage
\* when an equal item is found
DoInsert(t, item) ==
    IF item = nil THEN [t |-> t, node |-> nil, ok |-> FALSE]
    ELSE
    LET z == alloc(t, item)
        done(r) == IF r.ok THEN r ELSE [r EXCEPT !.t = drop(r.t, z)]
    IN  done(insert(new(t, z, Rbnode(t.nill, t.nill, t.nill, t.nill, t.nill, item, RED)), z))

\* Rbtree.Remove: the search key is a temporary node; the removed node is
\* garbage once its Item has been read
DoRemove(t, item) ==
    IF item = nil THEN [t |-> t, item |-> nil, ok |-> FALSE]
    ELSE
    LET key == alloc(t, item)
        done(r) ==
            IF r.ok
            THEN [t |-> drop(drop(r.t, key), r.node), item |-> r.t.nd[r.node].Item,
                  ok |-> TRUE]
            ELSE [t |-> drop(r.t, key), item |-> nil, ok |-> FALSE]
    IN  done(remove(new(t, key, Rbnode(t.nill, t.nill, t.nill, t.nill, t.nill, item, RED)), key))

\* A value of interface type Item: its dynamic type and the value of that type.
Interface(dyn, val) == [dyn |-> dyn, val |-> val]

\* Rbtree.Remove_raw: the returned Item is the node z itself (an *Rbnode is an
\* Item through the embedded field), reported here as node
DoRemove_raw(t, z) ==
    IF z = nil THEN [t |-> t, node |-> nil, ok |-> FALSE]
    ELSE LET done(r) == [r EXCEPT !.t = drop(r.t, z)] IN done(remove_raw(t, z))

\* the Item that Remove_raw returns: remove_raw's *Rbnode converted to Item
Remove_rawItem(r) ==
    IF r.node = nil THEN Interface("nil", nil) ELSE Interface("*Rbnode", r.node)

\* the Item that Remove returns: the Item field of the removed node, an Int in
\* the test
RemoveItem(r) ==
    IF r.item = nil THEN Interface("nil", nil) ELSE Interface("Int", r.item)

\* Rbtree.Get; it reads the container and writes nothing, so it is an
\* operator on the state and not an action
Get(t, item) ==
    IF item = nil THEN nil
    ELSE
    LET key == alloc(t, item)
        done(r) == IF r = t.nill THEN nil ELSE r
    IN  done(search(new(t, key, Rbnode(t.nill, t.nill, t.nill, t.nill, t.nill, item, RED)), key))

Count(t) == t.count
First(t) == t.first
Last(t) == t.last
RbnodeNext(t, node) == t.nd[node].next
RbnodePrev(t, node) == t.nd[node].prev

\* the nodes stored in the container
Stored == (DOMAIN heap) \ {nill}

Commit(t) ==
    /\ nill' = t.nill
    /\ root' = t.root
    /\ count' = t.count
    /\ first' = t.first
    /\ last' = t.last
    /\ heap' = t.nd

Init ==
    /\ nill = emptyTree.nill
    /\ root = emptyTree.root
    /\ count = emptyTree.count
    /\ first = emptyTree.first
    /\ last = emptyTree.last
    /\ heap = emptyTree.nd
    /\ hasInsert = {}

RbtreeInit ==
    /\ Commit(emptyTree)
    /\ hasInsert' = {}

Insert(item) ==
    /\ Commit(DoInsert(T, item).t)
    /\ hasInsert' = IF item = nil THEN hasInsert ELSE hasInsert \cup {Key(item)}

Remove(item) ==
    /\ Commit(DoRemove(T, item).t)
    /\ hasInsert' = IF item = nil THEN hasInsert ELSE hasInsert \ {Key(item)}

Remove_raw(z) ==
    /\ Commit(DoRemove_raw(T, z).t)
    /\ hasInsert' = IF z = nil THEN hasInsert ELSE hasInsert \ {Key(heap[z].Item)}

Next ==
    \/ \E item \in Items \cup {nil} : Insert(item)
    \/ \E item \in Items \cup {nil} : Remove(item)
    \/ \E z \in Stored \cup {nil} : Remove_raw(z)
    \/ RbtreeInit

Spec == Init /\ [][Next]_vars

\* The behaviors in which every Insert is of an item greater than all stored
\* ones, as when a sorted sequence is loaded, with any Remove in between.
\* They reach deeper trees than Spec does within the same time.
InsertGreatest(item) ==
    /\ \A k \in hasInsert : k < Key(item)
    /\ Insert(item)

NextGrow ==
    \/ \E item \in GrowItems : InsertGreatest(item)
    \/ \E item \in GrowItems : Remove(item)

SpecGrow == Init /\ [][NextGrow]_vars

\* ------------------------------------------------------------ validation

\* More nodes than any walk over a well-formed structure visits.
Fuel == SpareCell + 1

\* traverseP: the nodes of the subtree at node, left to right.  A walk that
\* leaves the heap or does not end is reported as a sequence holding nil.
RECURSIVE traverseP(_, _, _)
traverseP(t, node, k) ==
    IF node = t.nill THEN <<>>
    ELSE IF k = 0 \/ node \notin DOMAIN t.nd THEN <<nil>>
    ELSE traverseP(t, t.nd[node].left, k - 1) \o <<node>>
         \o traverseP(t, t.nd[node].right, k - 1)

\* linkedPrint: the nodes from node on along next
RECURSIVE linkedNext(_, _, _)
linkedNext(t, node, k) ==
    IF node = t.nill THEN <<>>
    ELSE IF k = 0 \/ node \notin DOMAIN t.nd THEN <<nil>>
    ELSE <<node>> \o linkedNext(t, RbnodeNext(t, node), k - 1)

\* the third loop of testStructure: the nodes from node on along prev
RECURSIVE linkedPrev(_, _, _)
linkedPrev(t, node, k) ==
    IF node = t.nill THEN <<>>
    ELSE IF k = 0 \/ node \notin DOMAIN t.nd THEN <<nil>>
    ELSE <<node>> \o linkedPrev(t, RbnodePrev(t, node), k - 1)

\* testBlack: the black-node counts of the paths from node down to the sentinel
RECURSIVE testBlack(_, _, _)
testBlack(t, node, k) ==
    IF node = t.nill THEN {0}
    ELSE IF k = 0 \/ node \notin DOMAIN t.nd THEN {0, 1}
    ELSE {d + (IF t.nd[node].color = BLACK THEN 1 ELSE 0) :
            d \in testBlack(t, t.nd[node].left, k - 1)
                  \cup testBlack(t, t.nd[node].right, k - 1)}

Range(s) == {s[i] : i \in 1 .. Len(s)}
Reverse(s) == [i \in 1 .. Len(s) |-> s[Len(s) + 1 - i]]
Ascending(t, s) == \A i \in 1 .. Len(s) - 1 : Less(t.nd[s[i]].Item, t.nd[s[i + 1]].Item)

\* the tree read left to right, and the set of nodes below (and including) n
InOrder(t) == traverseP(t, t.root, Fuel)
Subtree(t, n) == Range(traverseP(t, n, Fuel))

\* BST order over whole subtrees, strictly increasing in-order, no equal items
BSTOrder(t) ==
    /\ nil \notin Range(InOrder(t))
    /\ \A n \in Range(InOrder(t)) :
          /\ \A m \in Subtree(t, t.nd[n].left) : Less(t.nd[m].Item, t.nd[n].Item)
          /\ \A m \in Subtree(t, t.nd[n].right) : Less(t.nd[n].Item, t.nd[m].Item)
    /\ Ascending(t, InOrder(t))
    /\ \A a, b \in (DOMAIN t.nd) \ {t.nill} :
          a # b => Less(t.nd[a].Item, t.nd[b].Item) \/ Less(t.nd[b].Item, t.nd[a].Item)

\* every path from the root to the sentinel has the same number of black nodes
BlackHeight(t) == Cardinality(testBlack(t, t.root, Fuel)) = 1

\* root and sentinel black, no red node with a red child
RedBlack(t) ==
    /\ t.nd[t.root].color = BLACK
    /\ t.nd[t.nill].color = BLACK
    /\ \A n \in (DOMAIN t.nd) \ {t.nill} :
          t.nd[n].color = RED =>
              /\ t.nd[t.nd[n].left].color = BLACK
              /\ t.nd[t.nd[n].right].color = BLACK

\* the list is the tree read left to right, both ways, with its endpoints
ListAgrees(t) ==
    /\ nil \notin Range(InOrder(t))
    /\ Range(InOrder(t)) = (DOMAIN t.nd) \ {t.nill}
    /\ linkedNext(t, First(t), Fuel) = InOrder(t)
    /\ linkedPrev(t, Last(t), Fuel) = Reverse(InOrder(t))
    /\ IF InOrder(t) = <<>>
       THEN First(t) = t.nill /\ Last(t) = t.nill
       ELSE /\ First(t) = min(t, t.root) /\ Last(t) = max(t, t.root)
            /\ \A n \in Range(InOrder(t)) :
                  /\ ~Less(t.nd[n].Item, t.nd[First(t)].Item)
                  /\ ~Less(t.nd[Last(t)].Item, t.nd[n].Item)

\* count is the size of the tree and the length of the list in both directions
CountAgrees(t) ==
    /\ Count(t) >= 0
    /\ nil \notin Range(InOrder(t))
    /\ Count(t) = Len(InOrder(t))
    /\ Count(t) = Cardinality(Range(InOrder(t)))
    /\ Count(t) = Len(linkedNext(t, First(t), Fuel))
    /\ Count(t) = Len(linkedPrev(t, Last(t), Fuel))

\* ------------------------------------------------------------ claims

\* C1: after any sequence of Insert and Remove the tree is a binary search
\* tree over whole subtrees: everything left of a node is less, everything
\* right of it is greater, the in-order walk is strictly increasing and no
\* two stored nodes hold equal items.
C1_BSTOrder == BSTOrder(T)

\* a removal of a node with two children that leaves a tree in which some node
\* has an inner grandchild
C1_Witness ==
    \E z \in Stored :
        /\ heap[z].left # nill /\ heap[z].right # nill
        /\ LET removed(r) ==
                   /\ r.ok
                   /\ \E n \in (DOMAIN r.t.nd) \ {r.t.nill} :
                         /\ r.t.nd[n].left # r.t.nill
                         /\ r.t.nd[r.t.nd[n].left].right # r.t.nill
           IN  removed(DoRemove(T, heap[z].Item))

\* C2: after every Insert and Remove, also one that empties the tree, every
\* path from the root to a sentinel leaf has the same number of black nodes.
C2_BlackHeight == BlackHeight(T)

\* a removal of a black leaf that leaves a tree of black height 2 or more
C2_Witness ==
    \E z \in Stored :
        /\ heap[z].color = BLACK /\ heap[z].left = nill /\ heap[z].right = nill
        /\ LET removed(r) ==
                   r.ok /\ \E d \in testBlack(r.t, r.t.root, Fuel) : d >= 2
           IN  removed(DoRemove(T, heap[z].Item))

\* C3: after every Insert and Remove the root is black, the sentinel is
\* black and no red node has a red child.
C3_RedBlack == RedBlack(T)

\* an insertion that leaves a tree with a red node that has two children
C3_Witness ==
    \E x \in Items :
        LET inserted(a) ==
                /\ a.ok
                /\ \E n \in (DOMAIN a.t.nd) \ {a.t.nill} :
                      /\ a.t.nd[n].color = RED
                      /\ a.t.nd[n].left # a.t.nill
                      /\ a.t.nd[n].right # a.t.nill
        IN  inserted(DoInsert(T, x))

\* C4: after every Insert and Remove the list agrees with the tree: Next from
\* First visits exactly the stored nodes in in-order order and then the
\* sentinel, Prev from Last visits them in reverse, and First and Last hold
\* the minimum and the maximum item.
C4_ListAgrees == ListAgrees(T)

\* a removal of an inner item that leaves a list of four or more nodes, and
\* an insertion of a new minimum into such a list
C4_Witness ==
    /\ count >= 5
    /\ \E z \in Stored \ {first, last} : DoRemove(T, heap[z].Item).ok
    /\ \E x \in Items :
          /\ Less(x, heap[first].Item)
          /\ LET inserted(a) == a.ok /\ First(a.t) = a.node
             IN  inserted(DoInsert(T, x))

\* C5: count is the number of nodes reachable from root and the length of the
\* First/Next chain and of the Last/Prev chain, is never negative, goes up by
\* exactly 1 on a successful Insert and down by exactly 1 on a successful
\* Remove.
C5_Count ==
    /\ CountAgrees(T)
    /\ \A item \in Items :
          LET up(r)   == r.ok => Count(r.t) = Count(T) + 1
              down(r) == r.ok => Count(r.t) = Count(T) - 1
          IN  up(DoInsert(T, item)) /\ down(DoRemove(T, item))
    /\ \A z \in Stored : Count(DoRemove_raw(T, z).t) = Count(T) - 1

\* a removal that empties the container, and an insertion into it when empty
C5_Witness ==
    \/ /\ count = 1
       /\ LET removed(r) == r.ok /\ Count(r.t) = 0 /\ r.t.root = r.t.nill
          IN  removed(DoRemove(T, heap[root].Item))
    \/ /\ count = 0 /\ hasInsert = {}
       /\ \E x \in Items : DoInsert(T, x).ok

\* equal under the order: neither is less than the other
Equal(a, b) == ~Less(a, b) /\ ~Less(b, a)

\* no stored node holds an item equal to item
Absent(t, item) == \A n \in (DOMAIN t.nd) \ {t.nill} : ~Equal(t.nd[n].Item, item)

\* C6: the container refines the set hasInsert of the inserted keys: Insert(v)
\* is ok exactly when v was not in the set and returns a node holding an item
\* equal to v either way; Remove(v) returns (an item equal to v, true) exactly
\* when v was in the set and (nil, false) otherwise; Get(v) returns a node
\* holding an item equal to v exactly when v is in the set and nil otherwise;
\* Count() is the size of the set.
C6_Refines ==
    /\ Count(T) = Cardinality(hasInsert)
    /\ \A v \in Items :
          LET inserted(i) ==
                  /\ i.ok <=> Key(v) \notin hasInsert
                  /\ i.node \in (DOMAIN i.t.nd) \ {i.t.nill}
                  /\ Equal(i.t.nd[i.node].Item, v)
              removed(r) ==
                  /\ r.ok <=> Key(v) \in hasInsert
                  /\ r.ok => Equal(r.item, v)
                  /\ ~r.ok => r.item = nil
              got(g) ==
                  /\ g # nil <=> Key(v) \in hasInsert
                  /\ g # nil => g \in Stored /\ Equal(heap[g].Item, v)
          IN  inserted(DoInsert(T, v)) /\ removed(DoRemove(T, v)) /\ got(Get(T, v))

\* Remove(Twin) takes out the equal item that is stored under the same key
C6_Witness ==
    /\ count >= 3
    /\ LET removed(r) == r.ok /\ r.item # Twin
       IN  removed(DoRemove(T, Twin))

\* C7: Insert of an item equal to a stored item returns the node that holds
\* the stored item with ok = false and changes nothing: count, root, first,
\* last and every node's links, color and item stay as they were.
C7_DupInsert ==
    \A v \in Items : \A n \in Stored :
        Equal(heap[n].Item, v) => DoInsert(T, v) = [t |-> T, node |-> n, ok |-> FALSE]

\* Insert(Twin) is rejected in favour of the equal stored item
C7_Witness ==
    /\ count >= 3
    /\ LET inserted(i) == ~i.ok /\ i.node \in Stored /\ heap[i.node].Item # Twin
       IN  inserted(DoInsert(T, Twin))

\* C8: rejected input and not-found have no side effects: Insert(nil) returns
\* (nil, false), Remove(nil) returns (nil, false), Get(nil) returns nil,
\* Remove of an item with no equal stored item returns (nil, false) and Get of
\* it returns nil, and the container is unchanged each time.
C8_NoSideEffects ==
    /\ DoInsert(T, nil) = [t |-> T, node |-> nil, ok |-> FALSE]
    /\ DoRemove(T, nil) = [t |-> T, item |-> nil, ok |-> FALSE]
    /\ Get(T, nil) = nil
    /\ \A v \in Items :
          Absent(T, v) =>
              /\ DoRemove(T, v) = [t |-> T, item |-> nil, ok |-> FALSE]
              /\ Get(T, v) = nil

\* Remove of an absent item lying between the stored minimum and maximum fails
C8_Witness ==
    /\ count >= 3
    /\ \E v \in Items :
          /\ Absent(T, v)
          /\ Less(heap[first].Item, v) /\ Less(v, heap[last].Item)
          /\ ~DoRemove(T, v).ok

\* the list from First along Next, as nodes and as items
Chain(t) == linkedNext(t, First(t), Fuel)
ChainItems(t) ==
    LET items(c) == [i \in 1 .. Len(c) |-> t.nd[c[i]].Item] IN items(Chain(t))

\* C9: for an item x equal to no stored item, Insert(x) followed at once by
\* Remove(x) returns (x, true) and restores Count() and the First/Next
\* sequence of stored nodes and items.
C9_RoundTrip ==
    \A x \in Items :
        Absent(T, x) =>
            LET removed(b) ==
                    /\ b.ok /\ b.item = x
                    /\ Count(b.t) = Count(T)
                    /\ Chain(b.t) = Chain(T)
                    /\ ChainItems(b.t) = ChainItems(T)
                    /\ First(b.t) = First(T) /\ Last(b.t) = Last(T)
                inserted(a) == a.ok /\ removed(DoRemove(a.t, x))
            IN  inserted(DoInsert(T, x))

\* root and the left, right and parent links of the stored nodes
Links(t) ==
    [root |-> t.root,
     link |-> [n \in (DOMAIN t.nd) \ {t.nill} |->
                 <<t.nd[n].left, t.nd[n].right, t.nd[n].parent>>]]

\* Insert attached z as a leaf and moved nothing else: a is t with z in one
\* child slot that held the sentinel
InsertKeptLinks(t, a, z) ==
    /\ t.root # t.nill => a.root = t.root
    /\ \A n \in (DOMAIN t.nd) \ {t.nill} :
          /\ a.nd[n].parent = t.nd[n].parent
          /\ a.nd[n].left = t.nd[n].left \/ (t.nd[n].left = t.nill /\ a.nd[n].left = z)
          /\ a.nd[n].right = t.nd[n].right \/ (t.nd[n].right = t.nill /\ a.nd[n].right = z)

\* an absent item whose Insert rotates it into an inner position with two
\* children, from where the Remove takes it out again
C9_Witness ==
    /\ count >= 4
    /\ \E x \in Items :
          /\ Absent(T, x)
          /\ LET inserted(a) ==
                     /\ ~InsertKeptLinks(T, a.t, a.node)
                     /\ a.t.nd[a.node].left # nill
                     /\ a.t.nd[a.node].right # nill
                     /\ DoRemove(a.t, x).ok
             IN  inserted(DoInsert(T, x))

\* C10 as stated: for an item x equal to no stored item, Insert(x) followed at
\* once by Remove(x) restores root and every stored node's left, right and
\* parent links.
C10_Original ==
    \A x \in Items :
        Absent(T, x) => Links(DoRemove(DoInsert(T, x).t, x).t) = Links(T)

\* C10: for an item x equal to no stored item, Insert(x) followed at once by
\* Remove(x) leaves the same stored nodes in the same in-order order, and
\* restores root and every stored node's left, right and parent links whenever
\* the Insert rotated nothing (it attached the new node as a leaf and moved no
\* other link).
C10_RoundTripLinks ==
    \A x \in Items :
        Absent(T, x) =>
            LET inserted(a) ==
                    LET removed(b) ==
                            /\ InOrder(b.t) = InOrder(T)
                            /\ InsertKeptLinks(T, a.t, a.node) => Links(b.t) = Links(T)
                    IN  removed(DoRemove(a.t, x))
            IN  inserted(DoInsert(T, x))

\* an absent item whose Insert recolors up to the root without rotating
C10_Witness ==
    /\ count >= 4
    /\ \E x \in Items :
          /\ Absent(T, x)
          /\ LET inserted(a) ==
                     /\ InsertKeptLinks(T, a.t, a.node)
                     /\ \E n \in Stored : a.t.nd[n].color # heap[n].color
             IN  inserted(DoInsert(T, x))

\* C11 as stated: Remove_raw with the handle z of a stored item returns (the
\* item stored in z, true), the same result as Remove of z's item, and leaves
\* the container in the same state as that Remove.
C11_Original ==
    \A z \in Stored :
        LET same(raw, rem) ==
                /\ raw.ok /\ rem.ok
                /\ raw.t = rem.t
                /\ Remove_rawItem(raw) = RemoveItem(rem)
        IN  same(DoRemove_raw(T, z), DoRemove(T, heap[z].Item))

\* C11, the part the code keeps: Remove_raw with a stored handle z returns
\* true with z itself as the Item, and leaves the container in the same state
\* as Remove of z's item.
C11_RawState ==
    \A z \in Stored :
        LET same(raw, rem) ==
                /\ raw.ok /\ rem.ok
                /\ raw.t = rem.t
                /\ Remove_rawItem(raw) = Interface("*Rbnode", z)
                /\ RemoveItem(rem) = Interface("Int", heap[z].Item)
        IN  same(DoRemove_raw(T, z), DoRemove(T, heap[z].Item))

\* Remove_raw of a black node with two children in a tree of five or more
C11_Witness ==
    /\ count >= 5
    /\ \E z \in Stored :
          /\ heap[z].left # nill /\ heap[z].right # nill
          /\ heap[z].color = BLACK
          /\ DoRemove_raw(T, z).ok

\* the stored node holding the least item greater than n's, if there is one
NextGreater(t, n, m) ==
    /\ m \in (DOMAIN t.nd) \ {t.nill}
    /\ Less(t.nd[n].Item, t.nd[m].Item)
    /\ \A k \in (DOMAIN t.nd) \ {t.nill} :
          Less(t.nd[n].Item, t.nd[k].Item) => ~Less(t.nd[k].Item, t.nd[m].Item)

\* the stored node holding the greatest item less than n's, if there is one
NextSmaller(t, n, m) ==
    /\ m \in (DOMAIN t.nd) \ {t.nill}
    /\ Less(t.nd[m].Item, t.nd[n].Item)
    /\ \A k \in (DOMAIN t.nd) \ {t.nill} :
          Less(t.nd[k].Item, t.nd[n].Item) => ~Less(t.nd[m].Item, t.nd[k].Item)

\* C12 as stated: First() and Last() of an empty container, Next() of the
\* last node and Prev() of the first node are the no-node result that Get
\* gives for a missing item; on every other node Next()/Prev() return the
\* stored node holding the next greater / next smaller item.
C12_Original ==
    /\ \A v \in Items :
          Absent(T, v) =>
              /\ Count(T) = 0 => First(T) = Get(T, v) /\ Last(T) = Get(T, v)
              /\ Count(T) > 0 =>
                    /\ RbnodeNext(T, Last(T)) = Get(T, v)
                    /\ RbnodePrev(T, First(T)) = Get(T, v)
    /\ \A n \in Stored :
          /\ n # Last(T) => NextGreater(T, n, RbnodeNext(T, n))
          /\ n # First(T) => NextSmaller(T, n, RbnodePrev(T, n))

\* C12, what the code does: the four results are the container's sentinel, a
\* node that is not nil, holds a nil Item and has nil links; on every other
\* node Next()/Prev() return the stored node holding the next greater / next
\* smaller item.
C12_Sentinel ==
    /\ nill # nil /\ heap[nill].Item = nil
    /\ heap[nill].next = nil /\ heap[nill].prev = nil
    /\ Count(T) = 0 => First(T) = nill /\ Last(T) = nill
    /\ Count(T) > 0 =>
          /\ RbnodeNext(T, Last(T)) = nill
          /\ RbnodePrev(T, First(T)) = nill
    /\ \A n \in Stored :
          /\ n # Last(T) => NextGreater(T, n, RbnodeNext(T, n))
          /\ n # First(T) => NextSmaller(T, n, RbnodePrev(T, n))

\* a container of one node: removing it leaves First() and Last() at the
\* sentinel, while Get of the removed item gives nil
C12_Witness ==
    /\ count = 1
    /\ LET removed(r) ==
               /\ r.ok
               /\ First(r.t) = r.t.nill /\ Last(r.t) = r.t.nill
               /\ Get(r.t, r.item) = nil
       IN  removed(DoRemove(T, heap[root].Item))

\* every node of t other than those holding an item equal to x is a node of u
\* with the same item, and Get finds it under its item in t and in u
HandlesKept(t, u, x) ==
    \A n \in (DOMAIN t.nd) \ {t.nill} :
        ~Equal(t.nd[n].Item, x) =>
            /\ n \in (DOMAIN u.nd) \ {u.nill}
            /\ u.nd[n].Item = t.nd[n].Item
            /\ Get(u, t.nd[n].Item) = n

\* C13: node handles are stable: the node a successful Insert returns holds
\* the inserted item, no Insert, Remove or Remove_raw changes the item of a
\* node that stays stored (a two-child deletion relocates the successor node,
\* it does not copy its item), and Get of every remaining item returns the same
\* node before and after an Insert or Remove of another item.
C13_StableHandles ==
    /\ \A n \in Stored : Get(T, heap[n].Item) = n
    /\ \A x \in Items :
          LET inserted(a) ==
                  /\ a.ok => a.t.nd[a.node].Item = x
                  /\ ~a.ok => a.t.nd[a.node].Item = heap[a.node].Item
                  /\ HandlesKept(T, a.t, x)
              removed(b) == HandlesKept(T, b.t, x)
          IN  inserted(DoInsert(T, x)) /\ removed(DoRemove(T, x))
    /\ \A z \in Stored : HandlesKept(T, DoRemove_raw(T, z).t, heap[z].Item)

\* a removal of a node z with two children whose successor is not its right
\* child: the successor node takes the place of z and keeps its item
C13_Witness ==
    \E z \in Stored :
        /\ heap[z].left # nill /\ heap[z].right # nill
        /\ heap[heap[z].right].left # nill
        /\ LET moved(y, r) ==
                   /\ r.ok
                   /\ r.t.nd[y].Item = heap[y].Item
                   /\ r.t.nd[y].left = heap[z].left
                   /\ r.t.nd[y].right = heap[z].right
                   /\ Get(r.t, heap[y].Item) = y
           IN  moved(leftmost(T, heap[z].right), DoRemove(T, heap[z].Item))

\* an empty container: root, first and last are the sentinel, the sentinel is
\* a black node as the allocation leaves it, nothing else is reachable and
\* count is 0
Empty(t) ==
    /\ t.root = t.nill /\ t.first = t.nill /\ t.last = t.nill
    /\ t.count = 0
    /\ DOMAIN t.nd = {t.nill}
    /\ t.nd[t.nill] = Rbnode(nil, nil, nil, nil, nil, nil, BLACK)

\* C14: NewRbtree() and Init() yield an empty container: root, first and last
\* reference one freshly allocated black sentinel and count is 0; Init() on a
\* container in any reachable state discards every stored item, so afterwards
\* Count() is 0 and Get of every previously stored item returns nil.
C14_Init ==
    /\ Empty(T)
    /\ [][RbtreeInit =>
              /\ Empty(T')
              /\ Count(T') = 0
              /\ \A n \in Stored : Get(T', heap[n].Item) = nil]_vars

\* a container of five or more items, on which Init() discards them
C14_Witness == count >= 5 /\ ENABLED RbtreeInit

\* z has two children
TwoChildren(t, z) == t.nd[z].left # t.nill /\ t.nd[z].right # t.nill

\* the color a removal of z takes out of the tree: that of z when z has at
\* most one child, that of its in-order successor when it has two
RemovedColor(t, z) ==
    IF TwoChildren(t, z) THEN t.nd[leftmost(t, t.nd[z].right)].color
    ELSE t.nd[z].color

\* the colors of the nodes
Colors(t) == [n \in (DOMAIN t.nd) \ {t.nill} |-> t.nd[n].color]

\* C15: a removal runs the delete fixup exactly when the color removed from
\* the tree is black; the removed color is the deleted node's own color when
\* it has at most one child and the in-order successor's original color when
\* it has two; in the two-child case the relocated successor takes over the
\* deleted node's color; when the removed color is red nothing is rotated and
\* no other node is recolored.
C15_FixupIffBlack ==
    \A z \in Stored :
        LET y == leftmost(T, heap[z].right)
            done(u, r) ==
                /\ u.yOriginalColor = RemovedColor(T, z)
                /\ TwoChildren(T, z) => u.t.nd[y].color = heap[z].color
                /\ RemovedColor(T, z) = RED =>
                      /\ Links(r.t) = Links(u.t)
                      /\ \A n \in Stored \ {z} :
                            r.t.nd[n].color =
                                IF TwoChildren(T, z) /\ n = y THEN heap[z].color
                                ELSE heap[n].color
                /\ RemovedColor(T, z) = BLACK =>
                      /\ Links(r.t) = Links(deleteFixup(u.t, u.x))
                      /\ Colors(r.t) = Colors(deleteFixup(u.t, u.x))
        IN  done(removeUnlink(T, z), remove_raw(T, z))

\* a black node with two children whose successor is red, and a red node with
\* two children whose successor is black
C15_Witness ==
    /\ \E z \in Stored :
          /\ TwoChildren(T, z)
          /\ heap[z].color = BLACK /\ RemovedColor(T, z) = RED
    /\ \E z \in Stored :
          /\ TwoChildren(T, z)
          /\ heap[z].color = RED /\ RemovedColor(T, z) = BLACK
          /\ DoRemove_raw(T, z).ok

\* the tree as insert hands it to insertFixup: the new node z attached below
\* the node the descent ended at, count raised, the list not yet spliced
insertAttached(t, z) == insertLink(t, z, insertDescend(t, z, t.root, t.nill).y)

\* the condition at the loop test of insertFixup: the tree is a search tree of
\* uniform black height, z is red, and a red node has a red child only when
\* the child is z; the root is red only when it is z
InsertFixupInv(t, z) ==
    /\ BSTOrder(t)
    /\ BlackHeight(t)
    /\ t.nd[t.nill].color = BLACK
    /\ t.nd[z].color = RED
    /\ t.nd[t.root].color = RED => t.root = z
    /\ \A n \in (DOMAIN t.nd) \ {t.nill} :
          t.nd[n].color = RED =>
              /\ t.nd[t.nd[n].left].color = RED => t.nd[n].left = z
              /\ t.nd[t.nd[n].right].color = RED => t.nd[n].right = z

\* InsertFixupInv at the loop test of this and of every later iteration of
\* insertFixup, with a stored grandparent whenever the body is entered
RECURSIVE insertFixupLoop(_, _)
insertFixupLoop(t, z) ==
    /\ InsertFixupInv(t, z)
    /\ t.nd[t.nd[z].parent].color = RED =>
          /\ t.nd[t.nd[z].parent].parent \in (DOMAIN t.nd) \ {t.nill}
          /\ LET again(s) == insertFixupLoop(s.t, s.z)
             IN  again(insertFixupBody(t, z))

\* the number of times the body of insertFixup runs
RECURSIVE insertFixupSteps(_, _)
insertFixupSteps(t, z) ==
    IF t.nd[t.nd[z].parent].color = RED
    THEN LET again(s) == 1 + insertFixupSteps(s.t, s.z)
         IN  again(insertFixupBody(t, z))
    ELSE 0

\* a new node for item in t
withNode(t, item) ==
    new(t, alloc(t, item), Rbnode(t.nill, t.nill, t.nill, t.nill, t.nill, item, RED))

\* C16: insert-fixup loop invariant: at the start of every iteration of the
\* loop of insertFixup and when its test fails, BST order and uniform black
\* height hold and the only red-black violation is that the current node z is
\* red with a red parent or is a red root; no other red node has a red child,
\* and the grandparent the body recolors and rotates is a stored node, never
\* the sentinel.
C16_InsertFixupInv ==
    \A x \in Items \cup {Over, Under} :
        Absent(T, x) =>
            insertFixupLoop(insertAttached(withNode(T, x), alloc(T, x)), alloc(T, x))

\* an insertion whose fixup runs its body twice: a recoloring that moves z up
\* to a node with a red parent
C16_Witness ==
    \E x \in Items \cup {Over, Under} :
        /\ Absent(T, x)
        /\ insertFixupSteps(insertAttached(withNode(T, x), alloc(T, x)), alloc(T, x)) >= 2

\* the number of nodes on the longest path from node down to the sentinel
RECURSIVE height(_, _)
height(t, node) ==
    IF node = t.nill THEN 0
    ELSE LET greater(l, r) == 1 + (IF l > r THEN l ELSE r)
         IN  greater(height(t, t.nd[node].left), height(t, t.nd[node].right))

Height(t) == height(t, t.root)

\* the number of parent links from node up to the root
RECURSIVE Depth(_, _)
Depth(t, node) == IF node = t.root THEN 0 ELSE 1 + Depth(t, t.nd[node].parent)

\* the number of iterations of the loop of search
RECURSIVE searchSteps(_, _, _)
searchSteps(t, x, p) ==
    IF p = t.nill THEN 0
    ELSE IF Less(t.nd[p].Item, t.nd[x].Item) THEN 1 + searchSteps(t, x, t.nd[p].right)
    ELSE IF Less(t.nd[x].Item, t.nd[p].Item) THEN 1 + searchSteps(t, x, t.nd[p].left)
    ELSE 1

\* the number of iterations of the descent of insert
RECURSIVE insertDescendSteps(_, _, _)
insertDescendSteps(t, z, x) ==
    IF x = t.nill THEN 0
    ELSE IF Less(t.nd[z].Item, t.nd[x].Item) THEN 1 + insertDescendSteps(t, z, t.nd[x].left)
    ELSE IF Less(t.nd[x].Item, t.nd[z].Item) THEN 1 + insertDescendSteps(t, z, t.nd[x].right)
    ELSE 1

\* the number of iterations of the loop of min
RECURSIVE minSteps(_, _)
minSteps(t, x) ==
    IF x = t.nill THEN 0
    ELSE IF t.nd[x].left # t.nill THEN 1 + minSteps(t, t.nd[x].left)
    ELSE 0

\* the number of iterations of the climbing loop of successor
RECURSIVE successorUpSteps(_, _, _)
successorUpSteps(t, x, y) ==
    IF y # t.nill /\ x = t.nd[y].right THEN 1 + successorUpSteps(t, y, t.nd[y].parent)
    ELSE 0

\* the number of loop iterations of successor
successorSteps(t, x) ==
    IF x = t.nill THEN 0
    ELSE IF t.nd[x].right # t.nill THEN minSteps(t, t.nd[x].right)
    ELSE successorUpSteps(t, x, t.nd[x].parent)

\* the number of iterations of the successor loop of remove_raw
RECURSIVE leftmostSteps(_, _)
leftmostSteps(t, y) ==
    IF t.nd[y].left # t.nill THEN 1 + leftmostSteps(t, t.nd[y].left) ELSE 0

\* the number of times the body of deleteFixup runs
RECURSIVE deleteFixupSteps(_, _)
deleteFixupSteps(t, x) ==
    IF x # t.root /\ t.nd[x].color = BLACK
    THEN LET again(s) == 1 + deleteFixupSteps(s.t, s.x)
         IN  again(deleteFixupBody(t, x))
    ELSE 0

\* every iteration of insertFixup after which the loop goes on has moved z
\* strictly closer to the root
RECURSIVE insertFixupCloser(_, _)
insertFixupCloser(t, z) ==
    t.nd[t.nd[z].parent].color = RED =>
        LET again(s) ==
                /\ s.t.nd[s.t.nd[s.z].parent].color = RED =>
                      Depth(s.t, s.z) < Depth(t, z)
                /\ insertFixupCloser(s.t, s.z)
        IN  again(insertFixupBody(t, z))

\* every iteration of deleteFixup after which the loop goes on has moved x
\* strictly closer to the root
RECURSIVE deleteFixupCloser(_, _)
deleteFixupCloser(t, x) ==
    (x # t.root /\ t.nd[x].color = BLACK) =>
        LET again(s) ==
                /\ (s.x # s.t.root /\ s.t.nd[s.x].color = BLACK) =>
                      Depth(s.t, s.x) < Depth(t, x)
                /\ deleteFixupCloser(s.t, s.x)
        IN  again(deleteFixupBody(t, x))

\* C17: every Insert, Remove, Get and Remove_raw of a stored handle
\* terminates: the descent of search and of insert, the successor walks and
\* the loops of insertFixup and deleteFixup each stop after a number of
\* iterations bounded by the height of the tree, and each fixup iteration
\* after which the loop goes on moves the current node strictly closer to the
\* root.
C17_Terminates ==
    /\ \A v \in Items \cup GrowItems \cup {Over, Under} :
          LET searched(t) == searchSteps(t, alloc(T, v), t.root) <= Height(T)
              descended(t) == insertDescendSteps(t, alloc(T, v), t.root) <= Height(T)
              fixed(t) ==
                  /\ insertFixupSteps(t, alloc(T, v)) <= Height(t)
                  /\ insertFixupCloser(t, alloc(T, v))
              spliced(t) == successorSteps(t, alloc(T, v)) <= Height(t)
          IN  /\ searched(withNode(T, v))
              /\ descended(withNode(T, v))
              /\ Absent(T, v) =>
                    /\ fixed(insertAttached(withNode(T, v), alloc(T, v)))
                    /\ spliced(insertFixup(insertAttached(withNode(T, v), alloc(T, v)),
                                           alloc(T, v)))
    /\ \A z \in Stored :
          /\ successorSteps(T, z) <= Height(T)
          /\ TwoChildren(T, z) => leftmostSteps(T, heap[z].right) < Height(T)
          /\ LET fixed(u) ==
                     u.yOriginalColor = BLACK =>
                         /\ deleteFixupSteps(u.t, u.x) <= Height(T)
                         /\ deleteFixupCloser(u.t, u.x)
             IN  fixed(removeUnlink(T, z))

\* a removal whose fixup runs its body twice: the first run recolors the
\* sibling and moves x one level up, where x is still black and not the root
C17_Witness ==
    \E z \in Stored :
        LET fixed(u) ==
                /\ u.yOriginalColor = BLACK
                /\ deleteFixupSteps(u.t, u.x) >= 2
                /\ Depth(u.t, u.x) >= 2
        IN  fixed(removeUnlink(T, z)) /\ DoRemove_raw(T, z).ok

\* item is greater than every stored item
Greatest(t, item) ==
    \A n \in (DOMAIN t.nd) \ {t.nill} : Less(t.nd[n].Item, item)

\* C18: list splice for a new maximum: when Insert adds an item that has no
\* in-order successor, the tree parent of the new node after the fixup, from
\* which the code takes the node's prev, is the former Last() node (the
\* sentinel when the tree was empty); the new node becomes last with prev =
\* former last and former last's next = the new node, whatever the fixup
\* recolored and rotated.
C18_NewMaximum ==
    \A x \in Items \cup {Over} :
        Greatest(T, x) =>
            LET z == alloc(T, x)
                fixed(f) ==
                    /\ f.nd[z].parent = Last(T)
                    /\ successor(f, z) = f.nill
                done(a) ==
                    /\ a.ok /\ a.node = z
                    /\ Last(a.t) = z
                    /\ a.t.nd[z].prev = Last(T)
                    /\ a.t.nd[z].next = a.t.nill
                    /\ Last(T) # nill => a.t.nd[Last(T)].next = z
                    /\ Last(T) = nill => First(a.t) = z
            IN  /\ fixed(insertFixup(insertAttached(withNode(T, x), z), z))
                /\ done(DoInsert(T, x))

\* an insertion of a new maximum whose fixup recolors and then rotates above
\* the new node
C18_Witness ==
    \E x \in Items \cup {Over} :
        /\ Greatest(T, x)
        /\ insertFixupSteps(insertAttached(withNode(T, x), alloc(T, x)), alloc(T, x)) >= 2
        /\ DoInsert(T, x).ok

\* remove_raw(z) follows a nil pointer: z passes for a node with two children
\* (neither z.left nor z.right is the sentinel) and z.right is nil, so the
\* loop test y.left != t.nill reads a field of nil.  Nothing has been written
\* by then.
remove_rawPanics(t, z) ==
    /\ z \in DOMAIN t.nd
    /\ t.nd[z].left # t.nill
    /\ t.nd[z].right # t.nill
    /\ t.nd[z].right = nil

\* the handles that denote no stored node: nil and what First(), Last(),
\* Next() and Prev() return when there is no node to return
NoNodeHandles(t) ==
    {nil}
    \cup (IF Count(t) = 0 THEN {First(t), Last(t)}
          ELSE {RbnodeNext(t, Last(t)), RbnodePrev(t, First(t))})

\* C19 as stated: Remove_raw given a handle that denotes no stored node, nil
\* or the value First()/Last() return on an empty container or Next()/Prev()
\* return at a list endpoint, does not fault, reports (nil, false) and leaves
\* the container unchanged.
C19_Original ==
    \A z \in NoNodeHandles(T) :
        /\ ~remove_rawPanics(T, z)
        /\ DoRemove_raw(T, z) = [t |-> T, node |-> nil, ok |-> FALSE]

\* C19, what the code does: Remove_raw(nil) reports (nil, false) and leaves
\* the container unchanged; for the only other handle that denotes no stored
\* node, the sentinel, remove_raw follows a nil pointer before it has written
\* anything.
C19_NilOnly ==
    /\ NoNodeHandles(T) = {nil, nill}
    /\ DoRemove_raw(T, nil) = [t |-> T, node |-> nil, ok |-> FALSE]
    /\ remove_rawPanics(T, nill)

\* a container emptied by removals or never filled, and a container of three
\* or more nodes: First() and Next() of the last node give a handle on which
\* Remove_raw faults
C19_Witness ==
    \/ Count(T) = 0 /\ remove_rawPanics(T, First(T))
    \/ Count(T) >= 3 /\ remove_rawPanics(T, RbnodeNext(T, Last(T)))

\* the nodes the container holds: those reached from root by left and right
\* links
Held(t) == Range(InOrder(t))

\* parent links agree with child links, and no link of a stored node leaves
\* the container: root's parent is the sentinel, a child that is not the
\* sentinel names its parent, and left, right, parent, prev and next of every
\* stored node are stored nodes or the sentinel
ParentLinks(t) ==
    /\ t.root \in Held(t) \cup {t.nill}
    /\ t.root # t.nill => t.nd[t.root].parent = t.nill
    /\ Held(t) = (DOMAIN t.nd) \ {t.nill}
    /\ \A n \in Held(t) :
          /\ \A c \in {t.nd[n].left, t.nd[n].right} :
                c # t.nill => c \in Held(t) /\ t.nd[c].parent = n
          /\ {t.nd[n].left, t.nd[n].right, t.nd[n].parent,
              RbnodePrev(t, n), RbnodeNext(t, n)} \subseteq Held(t) \cup {t.nill}

\* C20: after every Insert and Remove the root's parent is the sentinel,
\* every child c other than the sentinel of a stored node n has c.parent = n,
\* and each left, right, parent, prev and next link of a stored node is a
\* stored node or the container's own sentinel, never nil and never a removed
\* node.  Every reachable state but the first is the state after an Insert or
\* a Remove; the Insert of an item above or below all others is followed one
\* step further, into trees of one node more than the items allow.
C20_ParentLinks ==
    /\ ParentLinks(T)
    /\ \A x \in {Over, Under} : ParentLinks(DoInsert(T, x).t)

\* a Remove of a node with two children whose successor is not its right
\* child, so that transplant runs twice and the links of the successor, of
\* both children and of the successor's old parent are rewritten, in a tree
\* that a rotation of Insert shaped
C20_Witness ==
    /\ Count(T) >= 5
    /\ \E x \in Items :
          LET z == Get(T, x)
          IN  /\ z # nil
              /\ TwoChildren(T, z)
              /\ heap[heap[z].right].left # nill
              /\ DoRemove(T, x).ok
              /\ ParentLinks(DoRemove(T, x).t)

\* the node below which a removal of z leaves the replacement node x: the
\* parent of z when z has at most one child, else the successor y of z when y
\* is the right child of z, else the parent of y
VacatedParent(t, z) ==
    IF ~TwoChildren(t, z) THEN t.nd[z].parent
    ELSE IF t.nd[leftmost(t, t.nd[z].right)].parent = z
    THEN leftmost(t, t.nd[z].right)
    ELSE t.nd[leftmost(t, t.nd[z].right)].parent

\* w := x.parent.right in the branch for a left child x, x.parent.left in the
\* branch for a right child
sibling(t, x, isLeft) ==
    IF isLeft THEN t.nd[t.nd[x].parent].right ELSE t.nd[t.nd[x].parent].left

\* the child of w on the side of x, and the one on the other side
nearChild(t, w, isLeft) == IF isLeft THEN t.nd[w].left ELSE t.nd[w].right
farChild(t, w, isLeft) == IF isLeft THEN t.nd[w].right ELSE t.nd[w].left

\* the first if of the loop body of deleteFixup: a red sibling is made black,
\* x.parent red, and x.parent is rotated towards x
deleteFixupRedSibling(t, x, isLeft) ==
    LET a1(a) == set(a, sibling(a, x, isLeft), "color", BLACK)
        a2(a) == set(a, a.nd[x].parent, "color", RED)
        a3(a) == IF isLeft THEN leftRotate(a, a.nd[x].parent)
                 ELSE rightRotate(a, a.nd[x].parent)
    IN  IF t.nd[sibling(t, x, isLeft)].color = RED THEN a3(a2(a1(t))) ELSE t

\* the inner if of the loop body: a sibling w whose far child is black gets
\* its near child blackened, is made red and rotated away from x
deleteFixupNearRed(t, w, isLeft) ==
    LET b1(a) == set(a, nearChild(a, w, isLeft), "color", BLACK)
        b2(a) == set(a, w, "color", RED)
        b3(a) == IF isLeft THEN rightRotate(a, w) ELSE leftRotate(a, w)
    IN  IF t.nd[farChild(t, w, isLeft)].color = BLACK THEN b3(b2(b1(t))) ELSE t

\* p is a node the container holds, with both children links set
IsNode(t, p) ==
    /\ p \in (DOMAIN t.nd) \ {t.nill}
    /\ t.nd[p].left \in DOMAIN t.nd
    /\ t.nd[p].right \in DOMAIN t.nd

\* one run of the loop body of deleteFixup on x reads and writes stored nodes
\* only: x.parent is a stored node with x in the child slot the branch test
\* finds, and each of the up to three values of w (on entry, after the
\* rotation for a red sibling, after the rotation for a black far child) is a
\* stored node whose children are read
deleteFixupBodySafe(t, x) ==
    /\ x \in DOMAIN t.nd
    /\ IsNode(t, t.nd[x].parent)
    /\ x \in {t.nd[t.nd[x].parent].left, t.nd[t.nd[x].parent].right}
    /\ t.nd[t.nd[x].parent].left # t.nd[t.nd[x].parent].right
    /\ LET isLeft == (x = t.nd[t.nd[x].parent].left)
           third(a) == IsNode(a, sibling(a, x, isLeft))
           second(a) ==
               /\ a.nd[a.nill] = t.nd[t.nill]
               /\ IsNode(a, a.nd[x].parent)
               /\ IsNode(a, sibling(a, x, isLeft))
               /\ a.nd[sibling(a, x, isLeft)].color = BLACK
               /\ ~(/\ a.nd[nearChild(a, sibling(a, x, isLeft), isLeft)].color = BLACK
                    /\ a.nd[farChild(a, sibling(a, x, isLeft), isLeft)].color = BLACK)
                    => /\ a.nd[farChild(a, sibling(a, x, isLeft), isLeft)].color = BLACK
                          => IsNode(a, nearChild(a, sibling(a, x, isLeft), isLeft))
                       /\ third(deleteFixupNearRed(a, sibling(a, x, isLeft), isLeft))
                       /\ deleteFixupNearRed(a, sibling(a, x, isLeft), isLeft).nd[a.nill]
                              = t.nd[t.nill]
       IN  /\ IsNode(t, sibling(t, x, isLeft))
           /\ second(deleteFixupRedSibling(t, x, isLeft))

\* every run of the loop body of deleteFixup from (t, x) on is safe, and leaves
\* every field of the sentinel, its parent and its color among them, as it was
RECURSIVE deleteFixupSafe(_, _)
deleteFixupSafe(t, x) ==
    (x # t.root /\ t.nd[x].color = BLACK) =>
        /\ deleteFixupBodySafe(t, x)
        /\ LET again(s) ==
                   /\ s.t.nd[s.t.nill] = t.nd[t.nill]
                   /\ s.x \in DOMAIN s.t.nd
                   /\ deleteFixupSafe(s.t, s.x)
           IN  again(deleteFixupBody(t, x))

\* C21: delete fixup never works through the sentinel's unset links: whenever
\* the loop body of deleteFixup runs, the sibling w of x is a stored node,
\* never the sentinel; when x is the sentinel, its parent field was set earlier
\* in the same removal to the node whose vacated child slot x occupies, and no
\* rotation of the fixup overwrites it; the fixup dereferences no nil link and
\* never colors the sentinel red.
C21_FixupSafe ==
    \A z \in Stored :
        LET fixed(u) ==
                u.yOriginalColor = BLACK =>
                    /\ (u.x = nill /\ u.x # u.t.root) =>
                          /\ u.t.nd[nill].parent = VacatedParent(T, z)
                          /\ u.t.nd[nill].parent \in (DOMAIN u.t.nd) \ {nill, z}
                          /\ nill \in {u.t.nd[VacatedParent(T, z)].left,
                                       u.t.nd[VacatedParent(T, z)].right}
                    /\ deleteFixupSafe(u.t, u.x)
                    /\ deleteFixup(u.t, u.x).nd[nill] = u.t.nd[nill]
                    /\ deleteFixup(u.t, u.x).nd[nill].color = BLACK
        IN  fixed(removeUnlink(T, z))

\* x is the sentinel below the node its parent field names, and the loop body
\* of deleteFixup is about to run on it
SentinelFixup(u) ==
    /\ u.yOriginalColor = BLACK
    /\ u.x = u.t.nill
    /\ u.x # u.t.root

\* a removal that hands the sentinel to deleteFixup as x below a red sibling
\* where, after the rotation of x.parent, the new sibling has a red near child
\* and a black far child: the body rotates twice more and reads the
\* sentinel's parent for each of the three values of w
C21_Witness ==
    \E z \in Stored :
        LET rotated(a, isLeft) ==
                /\ a.nd[nearChild(a, sibling(a, nill, isLeft), isLeft)].color = RED
                /\ a.nd[farChild(a, sibling(a, nill, isLeft), isLeft)].color = BLACK
            fixed(u, isLeft) ==
                /\ SentinelFixup(u)
                /\ u.t.nd[sibling(u.t, nill, isLeft)].color = RED
                /\ rotated(deleteFixupRedSibling(u.t, nill, isLeft), isLeft)
                /\ deleteFixupSafe(u.t, u.x)
            unlinked(u) == fixed(u, nill = u.t.nd[u.t.nd[nill].parent].left)
        IN  unlinked(removeUnlink(T, z)) /\ DoRemove_raw(T, z).ok

\* a removal that hands the sentinel to deleteFixup as x and whose loop runs
\* its body twice, the second time on a stored node
C21_TwoRuns ==
    \E z \in Stored :
        LET fixed(u) ==
                /\ SentinelFixup(u)
                /\ deleteFixupSteps(u.t, u.x) >= 2
                /\ deleteFixupSafe(u.t, u.x)
        IN  fixed(removeUnlink(T, z)) /\ DoRemove_raw(T, z).ok

====
